---- MODULE Spec2Model ----
\* Step-sequencing state machine of the neural-network music visualizer:
\* the shared AppState object (app-state.js), the handlers of app.js and the
\* timers / data-flow callbacks they schedule, the simulated layer
\* processing of DataGenerator (3d-engine.js), the parameter sliders and the
\* AudioPlayer (audio-player.js) with its suspended play calls and auto-stop
\* timers.
EXTENDS Integers, Sequences, FiniteSets, Bags, TLC

\* ---------------------------------------------------------------- bounds
\* Largest number of animateStep continuations (pending timeouts or pending
\* data-flow callbacks) kept outstanding; runForwardPass is not offered to
\* the user beyond it.
MaxPending == 2

\* Largest number of interval timers kept registered with the browser.
MaxIntervals == 2

\* The bound on outstanding continuations used by the liveness specification.
MaxPendingLive == 1

\* The bound on outstanding continuations used by the instrumented
\* specification, which records the handler that ran last.
MaxPendingOps == 1

\* Largest number of play calls kept in flight: suspended at the await, or
\* with their auto-stop timer still pending.
MaxPlays == 2

\* Math.random() outcomes, abstracted to one draw per handler invocation.
RandomVals == {0, 1}

\* ------------------------------------------------- architecture presets
Presets == {"VAE", "LSTM", "Transformer", "Diffusion"}

L(n, t) == [name |-> n, type |-> t]

architectures ==
  [ VAE |-> << L("Input Layer", "input"), L("Encoder Conv1", "conv"),
               L("Encoder Conv2", "conv"), L("Latent Space", "latent"),
               L("Decoder Dense", "dense"), L("Decoder Conv1", "deconv"),
               L("Output Layer", "output") >>,
    LSTM |-> << L("Input Sequence", "input"), L("Embedding Layer", "embedding"),
                L("LSTM Layer 1", "lstm"), L("LSTM Layer 2", "lstm"),
                L("Output Projection", "output") >>,
    Transformer |-> << L("Input Embedding", "input"),
                       L("Positional Encoding", "positional"),
                       L("Multi-Head Attention", "attention"),
                       L("Feed Forward Network", "ffn"),
                       L("Output Projection", "output") >>,
    Diffusion |-> << L("Noisy Input", "input"), L("Time Embedding", "time"),
                     L("U-Net Downsampling", "down"), L("Bottleneck", "bottleneck"),
                     L("U-Net Upsampling", "up"), L("Noise Prediction", "predict"),
                     L("Denoised Output", "output") >> ]

\* ------------------------------------------------------ DataGenerator
\* A value flowing between layers: an array of `len` elements, one of the two
\* non-array objects, null, or the TypeError raised by .map on a non-array.
Arr(n)     == [kind |-> "array", len |-> n]
NullData   == [kind |-> "null", len |-> 0]
LatentObj  == [kind |-> "latent", len |-> 0]
TimeObj    == [kind |-> "time", len |-> 0]
TypeError  == [kind |-> "error", len |-> 0]

\* the input buttons the user is given here ("scale" behaves like them)
InputTypes == {"random", "chord"}

DataGenerator_generateInput(type) ==
  CASE type = "random" -> Arr(32)
    [] type = "scale"  -> Arr(16)
    [] type = "chord"  -> Arr(12)
    [] OTHER           -> Arr(32)

\* data.map(...) of applyConvolution, applyLSTM and applyAttention
mapNotes(data) == IF data.kind = "array" THEN Arr(data.len) ELSE TypeError

applyConvolution(data) == mapNotes(data)
applyLSTM(data) == mapNotes(data)
applyAttention(data) == mapNotes(data)
applyLatentSampling(data) == LatentObj
applyTimeEmbedding == TimeObj

\* (mutant) applyGenericTransform without the non-array branch
applyGenericTransform_mapsOnly(data) == mapNotes(data)

applyGenericTransform(data) ==
  IF data.kind = "array" THEN Arr(data.len)
  ELSE IF data.kind = "time" THEN Arr(256)
  ELSE Arr(88)

OutputLength == 32

Min(a, b) == IF a < b THEN a ELSE b
Max(a, b) == IF a > b THEN a ELSE b

\* The array DataGenerator.generateOutput builds, for temperature temp and
\* Math.random() = r (both in tenths): times and durations in hundredths
generateOutput_notes(latentData, temp, r) ==
  [n \in 1..OutputLength |->
     LET i == n - 1
         pitch == 60 + (((r * temp * 24) \div 100) - 12)
     IN [pitch |-> Max(36, Min(96, pitch)),
         time |-> i * 25,
         duration |-> 25]]

\* (mutant) generateOutput with one output note per element of its input
generateOutput_perElement(latentData) == latentData.len

\* DataGenerator.generateOutput, as the length of the array it returns
generateOutput(latentData) == OutputLength

\* ------------------------------------------------------------- state
VARIABLES
  initialized,          \* initApp has run (listeners attached, network built)
  currentArchitecture,  \* AppState.currentArchitecture
  inputData,            \* AppState.inputData (NullData before any generation)
  layerOutputs,         \* AppState.layerOutputs
  currentStep,          \* AppState.currentStep
  totalSteps,           \* AppState.totalSteps
  isAnimating,          \* AppState.isAnimating
  isAutoPlaying,        \* AppState.isAutoPlaying
  outputNotes,          \* AppState.outputNotes, as its length
  autoPlayInterval,     \* app.js autoPlayInterval: 0 for null, else a timer id
  intervals,            \* interval timers registered with the browser
  pending,              \* bag of outstanding animateStep continuations
  renderedStep,         \* currentStep captured by the last updateLayerList
  temperature,          \* AppState.temperature, in tenths
  latentDim,            \* AppState.latentDim
  animationSpeed,       \* AppState.animationSpeed, in tenths
  isPlaying,            \* audioPlayer.isPlaying
  currentPart,          \* audioPlayer.currentPart: 0 for null, else a Part id
  parts,                \* Tone.Part objects started and not yet disposed
  awaiting,             \* play calls suspended at `await Tone.start()`, as
                        \*   the notes each was called with, oldest first
  autoStops,            \* pending auto-stop timers, oldest first, each as
                        \*   the id of the Part its play call created
  userActive,           \* the user is still at the page
  passClean,            \* history: a pass was started by the Run button and
                        \*          no user action happened since
  completed,            \* history: completeForwardPass ran in this pass
  traceOps,             \* instrumentation switch, fixed by the initial state
  lastOp                \* history (when traceOps): the handler that ran last

vars == << initialized, currentArchitecture, inputData, layerOutputs,
           currentStep, totalSteps, isAnimating, isAutoPlaying, outputNotes,
           autoPlayInterval, intervals, pending, renderedStep, temperature,
           latentDim, animationSpeed, isPlaying, currentPart, parts, awaiting,
           autoStops, userActive, passClean, completed, traceOps, lastOp >>

\* The mutable state as one record, so that a handler is a function from
\* state to state and nested calls compose.  `threw` marks an exception
\* propagating out of the current call.
St ==
  [ currentArchitecture |-> currentArchitecture, inputData |-> inputData,
    layerOutputs |-> layerOutputs, currentStep |-> currentStep,
    totalSteps |-> totalSteps, isAnimating |-> isAnimating,
    isAutoPlaying |-> isAutoPlaying, outputNotes |-> outputNotes,
    autoPlayInterval |-> autoPlayInterval, intervals |-> intervals,
    pending |-> pending, renderedStep |-> renderedStep,
    temperature |-> temperature, latentDim |-> latentDim,
    animationSpeed |-> animationSpeed, isPlaying |-> isPlaying,
    currentPart |-> currentPart, parts |-> parts, awaiting |-> awaiting,
    autoStops |-> autoStops,
    passClean |-> passClean, completed |-> completed, threw |-> FALSE ]

getCurrentArch(s) == architectures[s.currentArchitecture]

\* AppState.reset
reset(s) ==
  [s EXCEPT !.currentStep = 0, !.layerOutputs = << >>, !.outputNotes = 0,
            !.isAnimating = FALSE]

\* (mutant) buildNetwork that never updates totalSteps
buildNetwork_keepsTotal(s, architecture) == s

\* Engine3D.buildNetwork: one node group per layer, then totalSteps
buildNetwork(s, architecture) ==
  [s EXCEPT !.totalSteps = Len(getCurrentArch(s))]

\* Visualizer.updateLayerList: re-renders the list; the click handlers
\* capture `AppState.currentStep || 0`
updateLayerList(s) == [s EXCEPT !.renderedStep = s.currentStep]

\* DataGenerator.processLayer; layerIndex is 0-based as in the source
processLayer(s, layerIndex, data, rnd) ==
  LET layer == getCurrentArch(s)[layerIndex + 1]
      outputData ==
        CASE layer.type = "input" -> data
          [] layer.type \in {"conv", "deconv"} -> applyConvolution(data)
          [] layer.type = "lstm" -> applyLSTM(data)
          [] layer.type = "latent" -> applyLatentSampling(data)
          [] layer.type = "attention" -> applyAttention(data)
          [] layer.type = "time" -> applyTimeEmbedding
          [] OTHER -> applyGenericTransform(data)
  IN [layer |-> layer.name, type |-> layer.type, data |-> outputData,
      activation |-> rnd]

\* arch.layers.forEach(... processLayer ... push ...) of processAllLayers,
\* generateDataOnly and jumpToStep, from 0-based index i on; an exception in
\* processLayer leaves the entries pushed so far
RECURSIVE forEachLayer(_, _, _, _)
forEachLayer(s, i, currentData, rnd) ==
  IF i >= Len(getCurrentArch(s)) THEN s
  ELSE LET layerOutput == processLayer(s, i, currentData, rnd) IN
       IF layerOutput.data.kind = "error" THEN [s EXCEPT !.threw = TRUE]
       ELSE forEachLayer(
              [s EXCEPT !.layerOutputs = Append(s.layerOutputs, layerOutput)],
              i + 1, layerOutput.data, rnd)

\* ------------------------------------------------- timers and callbacks
\* An outstanding animateStep continuation: "flow" is a running data-flow
\* particle animation whose completion callback will set the timeout,
\* "timeout" a pending setTimeout(() => animateStep(step), ...)
Cont(kind, step) == [kind |-> kind, step |-> step]

\* setTimeout(() => animateStep(step), delay)
setTimeout(s, step) ==
  [s EXCEPT !.pending = @ (+) SetToBag({Cont("timeout", step)})]

\* Engine3D.animateDataFlow(fromLayer, toLayer, () => setTimeout(animateStep(toLayer)))
\* layerNodes holds one group per layer of the network built last
animateDataFlow(s, fromLayer, toLayer) ==
  IF fromLayer >= s.totalSteps \/ toLayer >= s.totalSteps
  THEN setTimeout(s, toLayer)
  ELSE [s EXCEPT !.pending = @ (+) SetToBag({Cont("flow", toLayer)})]

\* setInterval of toggleAutoPlay: a fresh timer id
setInterval(s) ==
  LET id == CHOOSE i \in 1..(Cardinality(s.intervals) + 1) : i \notin s.intervals
  IN [s EXCEPT !.intervals = @ \cup {id}, !.autoPlayInterval = id]

clearInterval(s, id) == [s EXCEPT !.intervals = @ \ {id}]

\* --------------------------------------------------------- AudioPlayer
\* A note list handed to play, as its length; NullNotes is null/undefined.
NullNotes == -1

\* AudioPlayer.stop
stop(s) ==
  [s EXCEPT !.parts = IF s.currentPart # 0 THEN @ \ {s.currentPart} ELSE @,
            !.currentPart = 0,
            !.isPlaying = FALSE]

\* (mutant) play that does not look at the note list
play_noEmptyCheck(s, notes) == [s EXCEPT !.awaiting = Append(@, notes)]

\* AudioPlayer.play up to `await Tone.start()`
play(s, notes) ==
  IF notes = NullNotes \/ notes = 0 THEN s
  ELSE [s EXCEPT !.awaiting = Append(@, notes)]

\* new Tone.Part(...): an object distinct from every Part still started and
\* from every Part a pending auto-stop timer belongs to
newPart(s) ==
  LET used == s.parts \cup {s.autoStops[i] : i \in 1..Len(s.autoStops)}
  IN CHOOSE id \in 1..(Cardinality(used) + 1) : id \notin used

\* (mutant) the rest of play without the stop() of line 34
playResume_noStop(s, notes) ==
  LET id == newPart(s)
  IN [s EXCEPT !.currentPart = id, !.parts = @ \cup {id}, !.isPlaying = TRUE,
               !.autoStops = Append(@, id)]

\* (mutant) the rest of play without the auto-stop timer
playResume_noTimer(s, notes) ==
  LET s1 == stop(s)
      id == newPart(s1)
  IN [s1 EXCEPT !.currentPart = id, !.parts = @ \cup {id}, !.isPlaying = TRUE]

\* AudioPlayer.play from the resumption after `await Tone.start()` on:
\* notes.map throws on null before a Part exists, notes[notes.length - 1].time
\* throws on an empty list after isPlaying was set
playResume(s, notes) ==
  LET s1 == stop(s)
      id == newPart(s1)
      s2 == [s1 EXCEPT !.currentPart = id, !.parts = @ \cup {id},
                       !.isPlaying = TRUE]
  IN IF notes = NullNotes THEN s1
     ELSE IF notes = 0 THEN s2
     ELSE [s2 EXCEPT !.autoStops = Append(@, id)]

\* the setTimeout callback of play: () => { this.stop(); }
autoStop(s) == stop(s)

\* ------------------------------------------------------------- sliders
\* e.target.value of a range input, as its characters
Digits == [c \in {"0", "1", "2", "3", "4", "5", "6", "7", "8", "9"} |->
            CASE c = "0" -> 0 [] c = "1" -> 1 [] c = "2" -> 2 [] c = "3" -> 3
              [] c = "4" -> 4 [] c = "5" -> 5 [] c = "6" -> 6 [] c = "7" -> 7
              [] c = "8" -> 8 [] c = "9" -> 9]

isDigit(c) == c \in DOMAIN Digits

\* the value of the leading digits of str from position i on, after acc
RECURSIVE leadingDigits(_, _, _)
leadingDigits(str, i, acc) ==
  IF i > Len(str) \/ ~isDigit(str[i]) THEN acc
  ELSE leadingDigits(str, i + 1, acc * 10 + Digits[str[i]])

RECURSIVE countDigits(_, _)
countDigits(str, i) ==
  IF i > Len(str) \/ ~isDigit(str[i]) THEN 0 ELSE 1 + countDigits(str, i + 1)

\* parseInt(str) of a string that starts with a digit
parseInt(str) == leadingDigits(str, 1, 0)

\* parseFloat(str) of a decimal string with at most one fractional digit,
\* in tenths
parseFloat(str) ==
  LET n == countDigits(str, 1)
      whole == leadingDigits(str, 1, 0)
      hasFraction == /\ n + 2 <= Len(str) /\ str[n + 1] = "."
                     /\ isDigit(str[n + 2])
  IN whole * 10 + (IF hasFraction THEN Digits[str[n + 2]] ELSE 0)

\* 'input' handler of the temperature slider
tempSliderInput(s, value) == [s EXCEPT !.temperature = parseFloat(value)]

\* (mutant) latent-dimension handler that writes the temperature field
latentSliderInput_wrongField(s, value) ==
  [s EXCEPT !.temperature = parseInt(value)]

\* 'input' handler of the latent-dimension slider
latentSliderInput(s, value) == [s EXCEPT !.latentDim = parseInt(value)]

\* 'input' handler of the speed slider
speedSliderInput(s, value) == [s EXCEPT !.animationSpeed = parseFloat(value)]

\* ------------------------------------------------------ app.js handlers
\* updateStepView
updateStepView(s) ==
  LET step == s.currentStep
      hasLayerData == step >= 0 /\ step < Len(s.layerOutputs)
      s1 == updateLayerList(s)
  IN IF step = Len(s.layerOutputs) - 1 /\ hasLayerData
     THEN [s1 EXCEPT !.outputNotes = generateOutput(s.layerOutputs[step + 1].data)]
     ELSE s1

\* completeForwardPass
completeForwardPass(s) ==
  LET s1 == [s EXCEPT !.isAnimating = FALSE,
                      !.currentStep = Len(getCurrentArch(s)) - 1,
                      !.completed = IF s.passClean THEN TRUE ELSE @]
      s2 == IF Len(s1.layerOutputs) > 0
            THEN [s1 EXCEPT !.outputNotes =
                    generateOutput(s1.layerOutputs[Len(s1.layerOutputs)].data)]
            ELSE s1
  IN updateStepView(s2)

\* (mutant) animateStep that schedules nothing after the last layer
animateStep_stopsAtLast(s, step) ==
  LET totalLayers == Len(getCurrentArch(s)) IN
  IF step >= totalLayers THEN completeForwardPass(s)
  ELSE
    LET s1 == updateLayerList([s EXCEPT !.currentStep = step])
    IN IF s1.isAnimating \/ s1.isAutoPlaying
       THEN IF step < totalLayers - 1
            THEN IF step < Len(s1.layerOutputs) - 1
                 THEN animateDataFlow(s1, step, step + 1)
                 ELSE setTimeout(s1, step + 1)
            ELSE s1
       ELSE s1

\* animateStep
animateStep(s, step) ==
  LET totalLayers == Len(getCurrentArch(s)) IN
  IF step >= totalLayers THEN completeForwardPass(s)
  ELSE
    LET s1 == updateLayerList([s EXCEPT !.currentStep = step])
    IN IF s1.isAnimating \/ s1.isAutoPlaying
       THEN IF step < totalLayers - 1
            THEN IF step < Len(s1.layerOutputs) - 1
                 THEN animateDataFlow(s1, step, step + 1)
                 ELSE setTimeout(s1, step + 1)
            ELSE setTimeout(s1, step + 1)
       ELSE s1

\* (mutant) processAllLayers that processes layer 0 only before animating
processAllLayers_firstLayerOnly(s, rnd) ==
  animateStep(
    [s EXCEPT !.layerOutputs = << processLayer(s, 0, s.inputData, rnd) >>], 0)

\* processAllLayers
processAllLayers(s, rnd) ==
  LET s1 == forEachLayer(s, 0, s.inputData, rnd)
  IN IF s1.threw THEN s1 ELSE animateStep(s1, 0)

\* (mutant) runForwardPass without the input-data check
runForwardPass_noInputCheck(s, rnd) ==
  IF s.isAnimating THEN s
  ELSE LET s1 == processAllLayers([reset(s) EXCEPT !.isAnimating = TRUE], rnd)
       IN IF s1.threw THEN [s1 EXCEPT !.isAnimating = FALSE, !.threw = FALSE]
          ELSE s1

\* (mutant) runForwardPass without the isAnimating check
runForwardPass_noAnimatingCheck(s, rnd) ==
  IF s.inputData.kind = "null" \/ s.inputData.len = 0 THEN s
  ELSE LET s1 == processAllLayers([reset(s) EXCEPT !.isAnimating = TRUE], rnd)
       IN IF s1.threw THEN [s1 EXCEPT !.isAnimating = FALSE, !.threw = FALSE]
          ELSE s1

\* runForwardPass
runForwardPass(s, rnd) ==
  IF s.inputData.kind = "null" \/ s.inputData.len = 0 THEN s
  ELSE IF s.isAnimating THEN s
  ELSE LET s1 == processAllLayers([reset(s) EXCEPT !.isAnimating = TRUE], rnd)
       IN IF s1.threw THEN [s1 EXCEPT !.isAnimating = FALSE, !.threw = FALSE]
          ELSE s1

\* generateDataOnly
generateDataOnly(s, rnd) ==
  IF s.inputData.kind = "null" \/ s.inputData.len = 0 THEN s
  ELSE LET s1 == forEachLayer(reset(s), 0, s.inputData, rnd)
       IN IF s1.threw THEN [s1 EXCEPT !.threw = FALSE]
          ELSE updateStepView([s1 EXCEPT !.currentStep = 0])

\* (mutant) stepForward that regenerates the data on every call
stepForward_recomputes(s, rnd) ==
  IF s.isAnimating THEN s ELSE generateDataOnly(s, rnd)

\* stepForward
stepForward(s, rnd) ==
  IF s.isAnimating THEN s
  ELSE IF Len(s.layerOutputs) = 0 THEN generateDataOnly(s, rnd)
  ELSE
    LET totalLayers == Len(getCurrentArch(s)) IN
    IF s.currentStep < totalLayers - 1
    THEN LET step == s.currentStep + 1
             hasLayerData == step >= 0 /\ step < Len(s.layerOutputs)
             s1 == updateLayerList([s EXCEPT !.currentStep = step])
         IN IF step = totalLayers - 1 /\ hasLayerData
            THEN [s1 EXCEPT !.outputNotes =
                    generateOutput(s.layerOutputs[step + 1].data)]
            ELSE s1
    ELSE s

\* stepBack
stepBack(s) ==
  IF s.isAnimating THEN s
  ELSE IF Len(s.layerOutputs) = 0 THEN s
  ELSE IF s.currentStep > 0
       THEN updateLayerList([s EXCEPT !.currentStep = s.currentStep - 1])
       ELSE s

\* jumpToStep
jumpToStep(s, stepIndex, rnd) ==
  IF stepIndex < 0 \/ stepIndex >= s.totalSteps THEN s
  ELSE
    LET s1 == [s EXCEPT !.currentStep = stepIndex]
        s2 == IF Len(s1.layerOutputs) = 0 /\ s1.inputData.kind # "null"
              THEN forEachLayer(s1, 0, s1.inputData, rnd)
              ELSE s1
    IN IF s2.threw THEN [s2 EXCEPT !.threw = FALSE] ELSE updateStepView(s2)

\* (mutant) resetVisualization that clears the timer but not the flag
resetVisualization_keepsFlag(s) ==
  LET s1 == reset(s)
      s2 == IF s1.autoPlayInterval # 0
            THEN [clearInterval(s1, s1.autoPlayInterval)
                    EXCEPT !.autoPlayInterval = 0]
            ELSE s1
  IN updateLayerList(stop(s2))

\* (mutant) resetVisualization that leaves the audio player alone
resetVisualization_noAudioStop(s) ==
  LET s1 == reset(s)
      s2 == IF s1.autoPlayInterval # 0
            THEN [clearInterval(s1, s1.autoPlayInterval)
                    EXCEPT !.autoPlayInterval = 0, !.isAutoPlaying = FALSE]
            ELSE s1
  IN updateLayerList(s2)

\* resetVisualization
resetVisualization(s) ==
  LET s1 == reset(s)
      s2 == IF s1.autoPlayInterval # 0
            THEN [clearInterval(s1, s1.autoPlayInterval)
                    EXCEPT !.autoPlayInterval = 0, !.isAutoPlaying = FALSE]
            ELSE s1
  IN updateLayerList(stop(s2))

\* toggleAutoPlay
toggleAutoPlay(s, rnd) ==
  LET s1 == [s EXCEPT !.isAutoPlaying = ~s.isAutoPlaying] IN
  IF s1.isAutoPlaying
  THEN LET s2 == IF Len(s1.layerOutputs) = 0 THEN runForwardPass(s1, rnd) ELSE s1
       IN setInterval(s2)
  ELSE IF s1.autoPlayInterval # 0
       THEN [clearInterval(s1, s1.autoPlayInterval) EXCEPT !.autoPlayInterval = 0]
       ELSE s1

\* the setInterval callback of toggleAutoPlay
autoPlayTick(s, rnd) ==
  LET s1 == IF s.currentStep >= s.totalSteps - 1
            THEN [s EXCEPT !.currentStep = -1] ELSE s
  IN stepForward(s1, rnd)

\* (mutant) architecture switch that keeps the cached state
archClick_noReset(s, arch) ==
  updateLayerList(buildNetwork([s EXCEPT !.currentArchitecture = arch], arch))

\* click handler of an architecture button
archClick(s, arch) ==
  updateLayerList(buildNetwork(reset([s EXCEPT !.currentArchitecture = arch]), arch))

\* initializeArchitecture
initializeArchitecture(s) == updateLayerList(buildNetwork(s, "VAE"))

\* (mutant) generateInput that keeps the state of the previous input
generateInput_noReset(s, type) ==
  updateLayerList([s EXCEPT !.inputData = DataGenerator_generateInput(type)])

\* generateInput (app.js): the layer list is re-rendered before the reset
generateInput(s, type) ==
  reset(updateLayerList([s EXCEPT !.inputData = DataGenerator_generateInput(type)]))

\* --------------------------------------------------------- transitions
\* History bookkeeping: a user action other than a Run click that starts a
\* pass ends the "uninterrupted pass" the history variables describe.
interrupted(s) ==
  [s EXCEPT !.passClean = FALSE, !.completed = FALSE]

passStarted(s) ==
  [s EXCEPT !.passClean = TRUE, !.completed = FALSE]

\* Commit the state a handler returned.
Set(s, op) ==
  /\ Cardinality(s.intervals) <= MaxIntervals
  /\ Len(s.awaiting) + Len(s.autoStops) <= MaxPlays
  /\ currentArchitecture' = s.currentArchitecture
  /\ inputData' = s.inputData
  /\ layerOutputs' = s.layerOutputs
  /\ currentStep' = s.currentStep
  /\ totalSteps' = s.totalSteps
  /\ isAnimating' = s.isAnimating
  /\ isAutoPlaying' = s.isAutoPlaying
  /\ outputNotes' = s.outputNotes
  /\ autoPlayInterval' = s.autoPlayInterval
  /\ intervals' = s.intervals
  /\ pending' = s.pending
  /\ renderedStep' = s.renderedStep
  /\ temperature' = s.temperature
  /\ latentDim' = s.latentDim
  /\ animationSpeed' = s.animationSpeed
  /\ isPlaying' = s.isPlaying
  /\ currentPart' = s.currentPart
  /\ parts' = s.parts
  /\ awaiting' = s.awaiting
  /\ autoStops' = s.autoStops
  /\ passClean' = s.passClean
  /\ completed' = s.completed
  /\ traceOps' = traceOps
  /\ lastOp' = IF traceOps THEN op ELSE lastOp

Init ==
  /\ initialized = FALSE
  /\ currentArchitecture = "VAE"
  /\ inputData = NullData
  /\ layerOutputs = << >>
  /\ currentStep = 0
  /\ totalSteps = 0
  /\ isAnimating = FALSE
  /\ isAutoPlaying = FALSE
  /\ outputNotes = 0
  /\ autoPlayInterval = 0
  /\ intervals = {}
  /\ pending = EmptyBag
  /\ renderedStep = 0
  /\ temperature = 10
  /\ latentDim = 128
  /\ animationSpeed = 10
  /\ isPlaying = FALSE
  /\ currentPart = 0
  /\ parts = {}
  /\ awaiting = << >>
  /\ autoStops = << >>
  /\ userActive = TRUE
  /\ passClean = FALSE
  /\ completed = FALSE
  /\ traceOps = FALSE
  /\ lastOp = "load"

\* initApp, 200 ms after the load event
InitApp ==
  /\ ~initialized
  /\ initialized' = TRUE
  /\ Set(initializeArchitecture(St), "initApp")
  /\ UNCHANGED userActive

User == initialized /\ userActive /\ UNCHANGED << initialized, userActive >>

\* Math.random is only called when layers are processed: the draws of a
\* handler that will not process layers are not enumerated.
Draws(R, processes) == IF processes THEN R ELSE {CHOOSE r \in R : TRUE}

hasInput == inputData.kind # "null" /\ inputData.len > 0

\* The user does not start another pass while as many continuations as the
\* bound allows are outstanding, unless one is being animated (the click is
\* then expected to do nothing).
PendingCap == IF traceOps THEN MaxPendingOps ELSE MaxPending

MayStart == isAnimating \/ BagCardinality(pending) < PendingCap

ArchClick ==
  /\ User
  /\ \E arch \in Presets : Set(archClick(interrupted(St), arch), "archClick")

InputClickOf(T) ==
  /\ User
  /\ \E type \in T : Set(generateInput(interrupted(St), type), "generateInput")

InputClick == InputClickOf(InputTypes)

RunClickOf(R) ==
  /\ User
  /\ hasInput => MayStart
  /\ LET starts == hasInput /\ ~isAnimating
         s0 == IF starts THEN passStarted(St) ELSE interrupted(St)
     IN \E rnd \in Draws(R, starts) : Set(runForwardPass(s0, rnd), "runForwardPass")

RunClick == RunClickOf(RandomVals)

StepForwardClick ==
  /\ User
  /\ \E rnd \in Draws(RandomVals, layerOutputs = << >> /\ hasInput) :
       Set(stepForward(interrupted(St), rnd), "stepForward")

StepBackClick ==
  /\ User
  /\ Set(stepBack(interrupted(St)), "stepBack")

\* click on an item of the layer list: only the items rendered as processed
\* or active call jumpToStep
LayerItemClick ==
  /\ User
  /\ \E index \in 0..(Len(architectures[currentArchitecture]) - 1) :
       /\ index <= renderedStep
       /\ \E rnd \in Draws(RandomVals, layerOutputs = << >> /\ hasInput) :
            Set(jumpToStep(interrupted(St), index, rnd), "jumpToStep")

ResetClick ==
  /\ User
  /\ Set(resetVisualization(interrupted(St)), "resetVisualization")

AutoPlayClickOf(R) ==
  /\ User
  /\ (~isAutoPlaying /\ layerOutputs = << >> /\ hasInput) => MayStart
  /\ \E rnd \in Draws(R, layerOutputs = << >> /\ hasInput) :
       Set(toggleAutoPlay(interrupted(St), rnd), "toggleAutoPlay")

AutoPlayClick == AutoPlayClickOf(RandomVals)

\* the user starts a pass with the Run button and walks away; timers keep
\* firing
UserLeaves ==
  /\ initialized /\ userActive
  /\ passClean /\ ~completed
  /\ userActive' = FALSE
  /\ UNCHANGED << initialized, currentArchitecture, inputData, layerOutputs,
                  currentStep, totalSteps, isAnimating, isAutoPlaying,
                  outputNotes, autoPlayInterval, intervals, pending,
                  renderedStep, temperature, latentDim, animationSpeed,
                  isPlaying, currentPart, parts, awaiting, autoStops,
                  passClean, completed, traceOps, lastOp >>

\* a data-flow particle animation finishes: its callback sets the timeout
FlowDone ==
  /\ \E c \in BagToSet(pending) :
       /\ c.kind = "flow"
       /\ Set(setTimeout([St EXCEPT !.pending = @ (-) SetToBag({c})], c.step), "flowDone")
  /\ UNCHANGED << initialized, userActive >>

\* a pending setTimeout(() => animateStep(step)) fires
TimeoutFire ==
  /\ \E c \in BagToSet(pending) :
       /\ c.kind = "timeout"
       /\ Set(animateStep([St EXCEPT !.pending = @ (-) SetToBag({c})], c.step), "animateStep")
  /\ UNCHANGED << initialized, userActive >>

\* a registered interval timer fires
IntervalFireOf(R) ==
  /\ \E id \in intervals :
       \E rnd \in Draws(R, layerOutputs = << >> /\ hasInput) :
         Set(autoPlayTick(St, rnd), "autoPlayTick")
  /\ UNCHANGED << initialized, userActive >>

IntervalFire == IntervalFireOf(RandomVals)

Next ==
  \/ InitApp
  \/ ArchClick
  \/ InputClick
  \/ RunClick
  \/ StepForwardClick
  \/ StepBackClick
  \/ LayerItemClick
  \/ ResetClick
  \/ AutoPlayClick
  \/ FlowDone
  \/ TimeoutFire
  \/ IntervalFire

Spec == Init /\ [][Next]_vars

\* The same program, instrumented: lastOp names the handler of the last step.
InitOps ==
  /\ initialized = FALSE
  /\ currentArchitecture = "VAE"
  /\ inputData = NullData
  /\ layerOutputs = << >>
  /\ currentStep = 0
  /\ totalSteps = 0
  /\ isAnimating = FALSE
  /\ isAutoPlaying = FALSE
  /\ outputNotes = 0
  /\ autoPlayInterval = 0
  /\ intervals = {}
  /\ pending = EmptyBag
  /\ renderedStep = 0
  /\ temperature = 10
  /\ latentDim = 128
  /\ animationSpeed = 10
  /\ isPlaying = FALSE
  /\ currentPart = 0
  /\ parts = {}
  /\ awaiting = << >>
  /\ autoStops = << >>
  /\ userActive = TRUE
  /\ passClean = FALSE
  /\ completed = FALSE
  /\ traceOps = TRUE
  /\ lastOp = "load"

SpecOps == InitOps /\ [][Next]_vars

\* The same program with a user who may walk away, and with every scheduled
\* timeout and every data-flow animation eventually running to its callback.
\* Its inputs are drawn from smaller sets.
LiveInputTypes == {"scale"}
LiveRandomVals == {0}

LiveInputClick == InputClickOf(LiveInputTypes)

MayStartLive == isAnimating \/ BagCardinality(pending) < MaxPendingLive

LiveRunClick == RunClickOf(LiveRandomVals) /\ (hasInput => MayStartLive)

LiveAutoPlayClick ==
  /\ AutoPlayClickOf(LiveRandomVals)
  /\ (~isAutoPlaying /\ layerOutputs = << >> /\ hasInput) => MayStartLive

LiveIntervalFire == IntervalFireOf(LiveRandomVals)

NextLive ==
  \/ InitApp
  \/ ArchClick
  \/ LiveInputClick
  \/ LiveRunClick
  \/ ResetClick
  \/ LiveAutoPlayClick
  \/ UserLeaves
  \/ FlowDone
  \/ TimeoutFire
  \/ LiveIntervalFire

SpecLive ==
  Init /\ [][NextLive]_vars /\ WF_vars(FlowDone) /\ WF_vars(TimeoutFire)

\* ------------------------------------------------ sliders and audio
\* positions the three sliders are dragged to
TempSliderValues == {<< "0", ".", "5" >>, << "3" >>}
LatentSliderValues == {<< "6", "4" >>}
SpeedSliderValues == {<< "2", ".", "5" >>}

TempSliderInput ==
  /\ User
  /\ \E value \in TempSliderValues :
       Set(tempSliderInput(interrupted(St), value), "tempSlider")

LatentSliderInput ==
  /\ User
  /\ \E value \in LatentSliderValues :
       Set(latentSliderInput(interrupted(St), value), "latentSlider")

SpeedSliderInput ==
  /\ User
  /\ \E value \in SpeedSliderValues :
       Set(speedSliderInput(interrupted(St), value), "speedSlider")

\* (mutant) play button that looks at the input notes instead
playClick_checksInput(s) ==
  IF s.inputData.kind = "array" /\ s.inputData.len > 0
  THEN play(s, s.inputData.len) ELSE s

\* click handler of the play button
playClick(s) == IF s.outputNotes > 0 THEN play(s, s.outputNotes) ELSE s

PlayClick ==
  /\ User
  /\ Set(playClick(interrupted(St)), "playClick")

\* click handler of the stop button
StopClick ==
  /\ User
  /\ Set(stop(interrupted(St)), "stopClick")

\* audioPlayer.play handed null or an empty list
PlayWithoutNotes ==
  /\ initialized
  /\ \E notes \in {NullNotes, 0} : Set(play(St, notes), "playWithoutNotes")
  /\ UNCHANGED << initialized, userActive >>

\* Tone.start() resolves: the oldest suspended play call resumes
ToneStarted ==
  /\ awaiting # << >>
  /\ Set(playResume([St EXCEPT !.awaiting = Tail(@)], Head(awaiting)),
         "playResume")
  /\ UNCHANGED << initialized, userActive >>

\* the oldest pending auto-stop timer fires (all are set 8.5 s ahead)
AutoStopFire ==
  /\ autoStops # << >>
  /\ Set(autoStop([St EXCEPT !.autoStops = Tail(@)]), "autoStop")
  /\ UNCHANGED << initialized, userActive >>

\* the user has started a playback and walks away
UserLeavesPlaying ==
  /\ initialized /\ userActive
  /\ isPlaying \/ awaiting # << >>
  /\ userActive' = FALSE
  /\ UNCHANGED << initialized, currentArchitecture, inputData, layerOutputs,
                  currentStep, totalSteps, isAnimating, isAutoPlaying,
                  outputNotes, autoPlayInterval, intervals, pending,
                  renderedStep, temperature, latentDim, animationSpeed,
                  isPlaying, currentPart, parts, awaiting, autoStops,
                  passClean, completed, traceOps, lastOp >>

\* In the specifications of the sliders and of the audio player the user starts a pass only
\* once the continuations of the cancelled ones have run.
QuietRunClick ==
  /\ RunClickOf(LiveRandomVals)
  /\ hasInput => (isAnimating \/ pending = EmptyBag)

QuietAutoPlayClick ==
  /\ AutoPlayClickOf(LiveRandomVals)
  /\ (~isAutoPlaying /\ layerOutputs = << >> /\ hasInput) =>
       (isAnimating \/ pending = EmptyBag)

\* The control panel: the sliders next to the pass controls, instrumented.
NextPanel ==
  \/ InitApp
  \/ ArchClick
  \/ LiveInputClick
  \/ QuietRunClick
  \/ ResetClick
  \/ QuietAutoPlayClick
  \/ LiveIntervalFire
  \/ FlowDone
  \/ TimeoutFire
  \/ TempSliderInput
  \/ LatentSliderInput
  \/ SpeedSliderInput

SpecPanel == InitOps /\ [][NextPanel]_vars

\* The audio player next to the pass controls, instrumented.
NextAudio ==
  \/ InitApp
  \/ LiveInputClick
  \/ QuietRunClick
  \/ ResetClick
  \/ QuietAutoPlayClick
  \/ LiveIntervalFire
  \/ FlowDone
  \/ TimeoutFire
  \/ PlayClick
  \/ StopClick
  \/ PlayWithoutNotes
  \/ ToneStarted
  \/ AutoStopFire

SpecAudio == InitOps /\ [][NextAudio]_vars

\* The audio player with a listener who may walk away, and with every
\* suspended play call eventually resumed and every auto-stop timer
\* eventually fired.
NextAudioLive ==
  \/ InitApp
  \/ LiveInputClick
  \/ QuietRunClick
  \/ ResetClick
  \/ FlowDone
  \/ TimeoutFire
  \/ PlayClick
  \/ StopClick
  \/ UserLeavesPlaying
  \/ ToneStarted
  \/ AutoStopFire

SpecAudioLive ==
  Init /\ [][NextAudioLive]_vars /\ WF_vars(ToneStarted) /\ WF_vars(AutoStopFire)

\* ------------------------------------------------ layer processing
\* lengths of the input note arrays tried
NoteCounts == {1, 12, 16, 32}

\* an architecture has been selected and notes are at hand
InitLayers ==
  /\ initialized = TRUE
  /\ currentArchitecture \in Presets
  /\ inputData \in {Arr(n) : n \in NoteCounts}
  /\ layerOutputs = << >>
  /\ currentStep = 0
  /\ totalSteps = Len(architectures[currentArchitecture])
  /\ isAnimating = FALSE
  /\ isAutoPlaying = FALSE
  /\ outputNotes = 0
  /\ autoPlayInterval = 0
  /\ intervals = {}
  /\ pending = EmptyBag
  /\ renderedStep = 0
  /\ temperature = 10
  /\ latentDim = 128
  /\ animationSpeed = 10
  /\ isPlaying = FALSE
  /\ currentPart = 0
  /\ parts = {}
  /\ awaiting = << >>
  /\ autoStops = << >>
  /\ userActive = TRUE
  /\ passClean = FALSE
  /\ completed = FALSE
  /\ traceOps = FALSE
  /\ lastOp = "load"

\* one iteration of arch.layers.forEach(...): the next layer processes the
\* data of the previous one and its output is pushed
ProcessNextLayer ==
  /\ Len(layerOutputs) < Len(getCurrentArch(St))
  /\ LET data == IF layerOutputs = << >> THEN inputData
                 ELSE layerOutputs[Len(layerOutputs)].data
         layerOutput == processLayer(St, Len(layerOutputs), data, 0)
     IN /\ layerOutput.data.kind # "error"
        /\ Set([St EXCEPT !.layerOutputs = Append(@, layerOutput)],
               "processLayer")
  /\ UNCHANGED << initialized, userActive >>

NextLayers == ProcessNextLayer

\* The layers of a preset processed one at a time.
SpecLayers == InitLayers /\ [][NextLayers]_vars

\* ------------------------------------------------------------ properties
archLayers == architectures[currentArchitecture]
numLayers == Len(archLayers)

\* C1: in a pass started by the Run button and not interrupted by another
\* user action, every animateStep callback either moves currentStep up by
\* exactly one (0, 1, ..., n-1, each once) or, after step n-1 only, calls
\* completeForwardPass, which happens once.
C1_StepsInOrderOnce ==
  [][(passClean /\ TimeoutFire) =>
       /\ ~completed
       /\ IF completed'
          THEN currentStep \in {numLayers - 1, -1}
          ELSE currentStep' = currentStep + 1]_vars

\* C2: while isAnimating, layerOutputs holds one entry per layer of the
\* current architecture, and no animateStep callback changes layerOutputs.
C2_PrecomputedOutputs ==
  /\ [](isAnimating => Len(layerOutputs) = numLayers)
  /\ [][layerOutputs' # layerOutputs => ~TimeoutFire]_vars

\* an uninterrupted pass has been animated up to its last layer
C2_Witness ==
  /\ isAnimating /\ passClean
  /\ currentStep = numLayers - 1
  /\ Len(layerOutputs) = numLayers

PassDone ==
  /\ ~isAnimating
  /\ currentStep = numLayers - 1
  /\ outputNotes > 0

\* C3: once the Run button has started a pass and the user does nothing
\* more, the pass eventually completes: isAnimating false, currentStep at
\* the last layer, outputNotes non-empty.
C3_PassCompletes == (passClean /\ ~completed /\ ~userActive) ~> PassDone

\* the user has left and the pass has completed
C3_Witness == passClean /\ completed /\ ~userActive /\ PassDone

LayerCount == [VAE |-> 7, LSTM |-> 5, Transformer |-> 5, Diffusion |-> 7]

\* C4: currentArchitecture is one of the four presets and, once initApp has
\* run, totalSteps is the number of layers of currentArchitecture (7, 5, 5, 7).
C4_TotalSteps ==
  /\ currentArchitecture \in Presets
  /\ initialized =>
       /\ totalSteps = numLayers
       /\ totalSteps = LayerCount[currentArchitecture]

\* layers were processed after a switch to a five-layer preset
C4_Witness ==
  /\ initialized /\ currentArchitecture = "LSTM" /\ totalSteps = 5
  /\ layerOutputs # << >>

\* C5: layerOutputs is empty or holds exactly one entry per layer of the
\* current architecture, entry i carrying the name and type of layer i.
C5_CacheAllOrNothing ==
  \/ layerOutputs = << >>
  \/ /\ Len(layerOutputs) = numLayers
     /\ \A i \in 1..numLayers :
          /\ layerOutputs[i].layer = archLayers[i].name
          /\ layerOutputs[i].type = archLayers[i].type

\* outputs exist for an architecture that had to be switched to
C5_Witness ==
  /\ currentArchitecture = "Transformer"
  /\ layerOutputs # << >>
  /\ outputNotes > 0

NavOps == {"stepForward", "stepBack", "jumpToStep"}

\* C6: with layerOutputs non-empty, stepForward, stepBack and jumpToStep
\* leave layerOutputs, inputData, currentArchitecture, isAnimating and
\* isAutoPlaying unchanged.
C6_NavigationFrame ==
  [][(lastOp' \in NavOps /\ layerOutputs # << >>) =>
       UNCHANGED << layerOutputs, inputData, currentArchitecture,
                    isAnimating, isAutoPlaying >>]_vars

\* stepForward has just walked the cached outputs up to the last layer
C6_Witness ==
  /\ lastOp = "stepForward"
  /\ layerOutputs # << >>
  /\ currentStep = numLayers - 1
  /\ outputNotes > 0

\* C7: isAutoPlaying holds exactly when an auto-play interval timer is
\* registered, and at most one interval timer exists.
C7_AutoPlayTimerAgrees ==
  /\ isAutoPlaying <=> autoPlayInterval # 0
  /\ Cardinality(intervals) <= 1
  /\ intervals = (IF autoPlayInterval = 0 THEN {} ELSE {autoPlayInterval})

\* auto-play is on and has a pass's output to step through
C7_Witness ==
  /\ isAutoPlaying /\ autoPlayInterval # 0 /\ intervals # {}
  /\ outputNotes > 0

\* C8: runForwardPass without input data leaves currentStep, layerOutputs,
\* outputNotes and isAnimating unchanged and schedules no continuation.
C8_RunWithoutInput ==
  [][(lastOp' = "runForwardPass" /\ ~hasInput) =>
       UNCHANGED << currentStep, layerOutputs, outputNotes, isAnimating,
                    pending >>]_vars

\* Run has just been clicked with no input generated
C8_Witness == lastOp = "runForwardPass" /\ ~hasInput /\ initialized

\* C9: runForwardPass while isAnimating is a no-op: currentStep,
\* layerOutputs, outputNotes and isAnimating are unchanged and no second
\* chain is scheduled.
C9_RunWhileAnimating ==
  [][(lastOp' = "runForwardPass" /\ isAnimating) =>
       UNCHANGED << currentStep, layerOutputs, outputNotes, isAnimating,
                    pending >>]_vars

\* Run has just been clicked in the middle of an animated pass
C9_Witness ==
  /\ lastOp = "runForwardPass" /\ isAnimating /\ ~passClean
  /\ currentStep > 0

\* C10: at most one animateStep continuation (pending timeout or pending
\* data-flow callback) is outstanding at any time.
C10_NoOverlap == BagCardinality(pending) <= 1

SliderOps == {"tempSlider", "latentSlider", "speedSlider"}

\* C11: each slider handler sets its own field (temperature, latentDim,
\* animationSpeed) to the slider's value and leaves the other two, every
\* other AppState field and the auto-play timer unchanged.
C11_SliderFrame ==
  [][lastOp' \in SliderOps =>
       /\ UNCHANGED << currentStep, layerOutputs, outputNotes, isAnimating,
                       isAutoPlaying, inputData, currentArchitecture,
                       totalSteps, autoPlayInterval, intervals >>
       /\ lastOp' = "tempSlider" =>
            /\ temperature' \in {5, 30}
            /\ UNCHANGED << latentDim, animationSpeed >>
       /\ lastOp' = "latentSlider" =>
            /\ latentDim' = 64
            /\ UNCHANGED << temperature, animationSpeed >>
       /\ lastOp' = "speedSlider" =>
            /\ animationSpeed' = 25
            /\ UNCHANGED << temperature, latentDim >>]_vars

\* the latent-dimension slider was moved during an animated pass, after the
\* other two
C11_Witness ==
  /\ lastOp = "latentSlider" /\ latentDim = 64
  /\ temperature = 5 /\ animationSpeed = 25
  /\ isAnimating /\ isAutoPlaying /\ layerOutputs # << >>

audioState == << isPlaying, currentPart, parts, awaiting, autoStops >>

\* C12: play called with null or an empty note list changes nothing:
\* isPlaying and currentPart keep their values, no Part is stopped, no call
\* is left waiting for the audio context and no auto-stop timer is scheduled.
C12_PlayWithoutNotes ==
  [][lastOp' = "playWithoutNotes" => UNCHANGED audioState]_vars

\* play was called without notes during a playback
C12_Witness ==
  /\ lastOp = "playWithoutNotes"
  /\ isPlaying /\ currentPart # 0 /\ autoStops # << >>

\* C13: the play button calls play with outputNotes when outputNotes is
\* non-empty, and leaves the audio player's state unchanged when it is empty.
C13_PlayButton ==
  [][lastOp' = "playClick" =>
       IF outputNotes = 0 THEN UNCHANGED audioState
       ELSE /\ awaiting' = Append(awaiting, outputNotes)
            /\ UNCHANGED << isPlaying, currentPart, parts, autoStops >>]_vars

\* the play button was clicked after new input had emptied outputNotes, with
\* the previous output still playing
C13_Witness ==
  /\ lastOp = "playClick" /\ outputNotes = 0 /\ hasInput
  /\ isPlaying /\ currentPart # 0

\* C14: at most one Part is started and not disposed, it is currentPart,
\* and isPlaying holds exactly when currentPart is non-null.
C14_OnePart ==
  /\ Cardinality(parts) <= 1
  /\ parts = (IF currentPart = 0 THEN {} ELSE {currentPart})
  /\ isPlaying <=> currentPart # 0

\* a second play call has replaced the playback of a first one whose
\* auto-stop timer is still pending
C14_Witness ==
  /\ isPlaying /\ Len(autoStops) = 2
  /\ currentPart = autoStops[2] /\ parts = {currentPart}

PlayerAtRest == ~isPlaying /\ currentPart = 0 /\ awaiting = << >>

\* C15: once play has been called with notes and no further click follows,
\* the player eventually is at rest: isPlaying false, currentPart null and
\* no play call left to resume.
C15_AutoStops ==
  (~userActive /\ (isPlaying \/ awaiting # << >>)) ~> PlayerAtRest

\* the listener has left during a playback and every auto-stop timer has
\* fired since
C15_Witness ==
  /\ ~userActive /\ PlayerAtRest /\ autoStops = << >>
  /\ outputNotes > 0

\* C16: a playback ends only in the stop button's or the reset button's
\* handler, in a newer play call, or when the auto-stop timer of the play
\* call that started it fires.
C16_OwnTimerOnly ==
  [][(currentPart # 0 /\ currentPart' # currentPart) =>
       \/ lastOp' \in {"stopClick", "resetVisualization", "playResume"}
       \/ lastOp' = "autoStop" /\ Head(autoStops) = currentPart]_vars

CancelOps == {"resetVisualization", "archClick", "generateInput"}

\* C17: resetVisualization, an architecture switch and generateInput each
\* end with currentStep = 0, layerOutputs empty, outputNotes empty and
\* isAnimating false.
C17_CancelEndState ==
  [][lastOp' \in CancelOps =>
       /\ currentStep' = 0
       /\ layerOutputs' = << >>
       /\ outputNotes' = 0
       /\ ~isAnimating']_vars

\* new input was generated in the middle of an animated pass
C17_Witness ==
  /\ lastOp = "generateInput"
  /\ pending # EmptyBag
  /\ currentStep = 0 /\ layerOutputs = << >> /\ ~isAnimating

\* runForwardPass called in the current state starts a pass: all layers are
\* processed, isAnimating is set and the first continuation is scheduled
ReadyForPass ==
  LET s == runForwardPass(St, 0)
  IN /\ s.isAnimating
     /\ s.currentStep = 0
     /\ Len(s.layerOutputs) = numLayers
     /\ BagCardinality(s.pending) = BagCardinality(pending) + 1

\* C18: resetVisualization ends with auto-play off (isAutoPlaying false, no
\* interval timer) and the audio player stopped, leaves inputData,
\* currentArchitecture and totalSteps unchanged, and, when input had been
\* generated, a runForwardPass called next starts a pass.
C18_ResetReady ==
  /\ [][lastOp' = "resetVisualization" =>
          /\ ~isAutoPlaying' /\ autoPlayInterval' = 0 /\ intervals' = {}
          /\ ~isPlaying' /\ currentPart' = 0 /\ parts' = {}
          /\ UNCHANGED << inputData, currentArchitecture, totalSteps >>]_vars
  /\ []((lastOp = "resetVisualization" /\ hasInput) => ReadyForPass)

\* reset was clicked in the middle of an animated pass, with the auto-stop
\* timer of a playback still pending
C18_Witness ==
  /\ lastOp = "resetVisualization" /\ hasInput
  /\ pending # EmptyBag /\ autoStops # << >>
  /\ ~isPlaying /\ ~isAutoPlaying /\ ReadyForPass

\* layer types whose transform is a data.map(...)
MappingTypes == {"conv", "deconv", "lstm", "attention"}

\* the data the next layer to be processed is fed
fedData == IF layerOutputs = << >> THEN inputData
           ELSE layerOutputs[Len(layerOutputs)].data

\* C19: on each of the four presets and from any non-empty note array, the
\* next layer in order processes what the previous one produced without an
\* exception, layer 0 passes the notes through, every conv, deconv, lstm and
\* attention layer is fed an array, and the loop over all layers that the
\* handlers run produces the same outputs without an exception.
C19_ProcessingNeverFails ==
  /\ Len(layerOutputs) < numLayers =>
       LET layerIndex == Len(layerOutputs)
           out == processLayer(St, layerIndex, fedData, 0)
       IN /\ out.data.kind # "error"
          /\ archLayers[layerIndex + 1].type \in MappingTypes =>
               fedData.kind = "array"
          /\ layerIndex = 0 => out.data = inputData
  /\ Len(layerOutputs) = numLayers =>
       LET s == forEachLayer([St EXCEPT !.layerOutputs = << >>], 0,
                             inputData, 0)
       IN ~s.threw /\ s.layerOutputs = layerOutputs

\* the seven VAE layers have been processed, the dense layer having been
\* fed the object of the latent layer
C19_Witness ==
  /\ currentArchitecture = "VAE"
  /\ Len(layerOutputs) = 7
  /\ layerOutputs[1].data = inputData
  /\ layerOutputs[4].data = LatentObj
  /\ layerOutputs[7].data.kind = "array"

\* Math.random() outcomes (in tenths) tried for the pitch of the notes
PitchDraws == {0, 5, 9}

\* C20: outputNotes is empty or 32 notes long, and the notes generateOutput
\* builds from the last layer's data at the current temperature are 32,
\* note i with time i * 0.25, duration 0.25 and a pitch within 36..96.
C20_OutputShape ==
  /\ outputNotes \in {0, 32}
  /\ (outputNotes > 0 /\ layerOutputs # << >>) =>
       \A r \in PitchDraws :
         LET data == layerOutputs[Len(layerOutputs)].data
             notes == generateOutput_notes(data, temperature, r)
         IN /\ Len(notes) = 32
            /\ outputNotes = generateOutput(data)
            /\ \A n \in 1..32 :
                 /\ notes[n].time = (n - 1) * 25
                 /\ notes[n].duration = 25
                 /\ notes[n].pitch \in 36..96

\* output was generated with the temperature slider at 3, where the upper
\* clamp of the pitch takes effect
C20_Witness ==
  /\ outputNotes = 32 /\ temperature = 30 /\ layerOutputs # << >>
  /\ generateOutput_notes(layerOutputs[Len(layerOutputs)].data,
                          temperature, 9)[1].pitch = 96

====
